---- MODULE Spec2Model ----
(***************************************************************************)
(* Model of DummyBackend.py: a Flask mock of a user-management API backed  *)
(* by the in-memory list USERS_DB.                                         *)
(*                                                                         *)
(* Spec      : requests are served one at a time (each handler is atomic). *)
(* SpecConc  : register requests are served by concurrent threads, the     *)
(*             handler's statements interleaving.                          *)
(* SpecToggle: the same for enable-disable requests.                       *)
(***************************************************************************)
EXTENDS Integers, Sequences, FiniteSets, TLC

\* ---------------------------------------------------------------- bounds
MaxUsers == 3          \* a new email is only registered below this size
NumThreads == 2        \* server threads of the concurrent specification
Threads == 1 .. NumThreads

\* ------------------------------------------------------- request inputs
NewEmails == {"a@x.y", "b@x.y"}
SeedEmails == {"admin@example.com", "1@1.1"}
Emails == SeedEmails \cup NewEmails
RegisterPasswords == {"pass"}
Passwords == {"pass", "new"}
LoginPasswords == Passwords \cup {"adminpass"}
Roles == {"ADMIN", "STUDENT"}
RequestRoles == Roles \cup {"GUEST"}
Usernames == {"newuser"}
Tokens == {"", "mocked_refresh_token", "t0"}
RefreshBodies == {[token |-> t] : t \in Tokens} \cup {[other |-> ""]}
UserIds == 1 .. (MaxUsers + 1)
RegisterBodies ==
    [email : Emails, username : Usernames, password : RegisterPasswords,
     role : RequestRoles]
\* JSON bodies that lack a key register() subscripts
MalformedRegisterBodies ==
    { [username |-> "newuser", password |-> "pass", role |-> "STUDENT"],
      [email |-> "a@x.y", username |-> "newuser", role |-> "STUDENT"] }

\* Python's None and a present value
None == <<>>
Some(v) == <<v>>

\* ------------------------------------------------------------- state
VARIABLES
    USERS_DB,   \* the list of user records (line 9)
    req,        \* the request served last
    resp,       \* the outcome of the request served last
    before,     \* USERS_DB just before the step that answered that request
    session,    \* what the client holds from its last successful login
    thread,     \* per server thread: position and locals of its handler
    flips       \* positions of USERS_DB toggled an odd number of times

vars == <<USERS_DB, req, resp, before, session, thread, flips>>

SeedUsers ==
    << [id |-> 1, email |-> "admin@example.com", username |-> "admin",
        role |-> "ADMIN", enabled |-> TRUE, password |-> "adminpass"],
       [id |-> 2, email |-> "1@1.1", username |-> "user1",
        role |-> "STUDENT", enabled |-> TRUE, password |-> "pass"] >>

\* ------------------------------------------------------- pure helpers
\* data is tagged with its Python type: none, dict or list
NoData == [kind |-> "none"]
Dict(d) == [kind |-> "dict", val |-> d]
List(l) == [kind |-> "list", val |-> l]

\* truthiness of data: None, {} and [] are false
Truthy(data) ==
    CASE data.kind = "none" -> FALSE
      [] data.kind = "dict" -> DOMAIN data.val # {}
      [] data.kind = "list" -> Len(data.val) > 0

\* dict.get(key): the value, or None when the key is absent
DictGet(d, key) == IF key \in DOMAIN d THEN Some(d[key]) ELSE None

\* an outcome: the JSON body returned, or the exception the handler raised
Returned(body) == [raised |-> "", body |-> Some(body)]
Raised(exc) == [raised |-> exc, body |-> None]
NoOutcome == [raised |-> "", body |-> None]

\* create_response(status_code, message, data, error=None); a list has no
\* attribute get, so a non-empty list raises AttributeError at line 21
create_response(status_code, message, data) ==
    IF Truthy(data) /\ data.kind = "list"
    THEN Raised("AttributeError")
    ELSE Returned(
        [statusCode |-> status_code,
         message |-> message,
         user |-> IF Truthy(data) THEN Some(data.val) ELSE None,
         userList |-> IF data.kind = "list" THEN Some(data.val) ELSE None,
         token |-> IF Truthy(data) THEN DictGet(data.val, "token") ELSE None,
         refreshToken |-> IF Truthy(data) THEN DictGet(data.val, "refreshToken") ELSE None,
         expirationTime |-> IF Truthy(data) THEN DictGet(data.val, "expirationTime") ELSE None,
         error |-> None])

\* a lookup that stops after the first record
FindByEmail_FirstOnly(db, email) ==
    IF Len(db) > 0 /\ db[1].email = email THEN 1 ELSE 0

\* next((i for user in db if user['email'] == email), None): index of the
\* first match, 0 for None
FindByEmail(db, email) ==
    IF \E i \in 1 .. Len(db) : db[i].email = email
    THEN CHOOSE i \in 1 .. Len(db) :
            /\ db[i].email = email
            /\ \A j \in 1 .. (i - 1) : db[j].email # email
    ELSE 0

\* a lookup by id that stops after the first record
FindById_FirstOnly(db, userId) ==
    IF Len(db) > 0 /\ db[1].id = userId THEN 1 ELSE 0

\* next((u for u in db if u['id'] == userId), None): index of the first
\* match, 0 for None
FindById(db, userId) ==
    IF \E i \in 1 .. Len(db) : db[i].id = userId
    THEN CHOOSE i \in 1 .. Len(db) :
            /\ db[i].id = userId
            /\ \A j \in 1 .. (i - 1) : db[j].id # userId
    ELSE 0

\* [u for u in db if u['role'] == role]
FilterByRole(db, role) == SelectSeq(db, LAMBDA u : u.role = role)

\* a new_user whose id is the current length
NewUser_IdIsLen(db, req_data) ==
    [id |-> Len(db),
     email |-> req_data.email,
     username |-> req_data.username,
     role |-> req_data.role,
     enabled |-> TRUE,
     password |-> req_data.password]

\* the new_user dict of lines 40-47
NewUser(db, req_data) ==
    [id |-> Len(db) + 1,
     email |-> req_data.email,
     username |-> req_data.username,
     role |-> req_data.role,
     enabled |-> TRUE,
     password |-> req_data.password]

IdleThread == [pc |-> "idle"]

Init ==
    /\ USERS_DB = SeedUsers
    /\ req = [op |-> "none"]
    /\ resp = NoOutcome
    /\ before = SeedUsers
    /\ session = None
    /\ thread = [t \in Threads |-> IdleThread]
    /\ flips = {}

\* one more answered toggle of position u
Flip(S, u) == IF u \in S THEN S \ {u} ELSE S \cup {u}

\* ------------------------------------------------- handlers, atomic
Answer(r, db, out) ==
    /\ req' = r
    /\ before' = USERS_DB
    /\ USERS_DB' = db
    /\ resp' = out

Serve(r, db, out) ==
    /\ Answer(r, db, out)
    /\ UNCHANGED <<thread, flips>>

\* POST /auth/register
\* req_data['email'] (line 36) and req_data['username'], ['role'],
\* ['password'] (lines 43-46) raise KeyError when the key is absent
register(req_data) ==
    /\ LET existing_user == FindByEmail(USERS_DB, req_data.email)
           new_user == NewUser(USERS_DB, req_data)
       IN IF "email" \notin DOMAIN req_data
          THEN Serve([op |-> "register", body |-> req_data], USERS_DB,
                     Raised("KeyError"))
          ELSE IF existing_user # 0
          THEN Serve([op |-> "register", body |-> req_data], USERS_DB,
                     create_response(400, "Email already exists", NoData))
          ELSE IF ~ ({"username", "role", "password"} \subseteq DOMAIN req_data)
          THEN Serve([op |-> "register", body |-> req_data], USERS_DB,
                     Raised("KeyError"))
          ELSE /\ Len(USERS_DB) < MaxUsers
               /\ Serve([op |-> "register", body |-> req_data],
                        Append(USERS_DB, new_user),
                        create_response(200, "User registered successfully",
                                        Dict(new_user)))
    /\ UNCHANGED session

\* a login that does not compare the password
login_response_NoPasswordCheck(db, req_data) ==
    LET user == FindByEmail(db, req_data.email)
    IN IF user = 0
       THEN create_response(400, "Invalid credentials", NoData)
       ELSE create_response(200, "Login successful",
                Dict([token |-> "mocked_jwt_token",
                      refreshToken |-> "mocked_refresh_token",
                      expirationTime |-> "24Hrs",
                      role |-> db[user].role]))

\* a login that tells an unknown email from a wrong password
login_response_DistinctMessages(db, req_data) ==
    LET user == FindByEmail(db, req_data.email)
    IN IF user = 0
       THEN create_response(400, "Unknown email", NoData)
       ELSE IF db[user].password # req_data.password
       THEN create_response(400, "Invalid credentials", NoData)
       ELSE create_response(200, "Login successful",
                Dict([token |-> "mocked_jwt_token",
                      refreshToken |-> "mocked_refresh_token",
                      expirationTime |-> "24Hrs",
                      role |-> db[user].role]))

\* a login that turns disabled users away
login_response_RejectsDisabled(db, req_data) ==
    LET user == FindByEmail(db, req_data.email)
    IN IF user = 0 \/ db[user].password # req_data.password \/ ~ db[user].enabled
       THEN create_response(400, "Invalid credentials", NoData)
       ELSE create_response(200, "Login successful",
                Dict([token |-> "mocked_jwt_token",
                      refreshToken |-> "mocked_refresh_token",
                      expirationTime |-> "24Hrs",
                      role |-> db[user].role]))

\* what login() returns for a request body on a directory (lines 54-67)
login_response(db, req_data) ==
    LET user == FindByEmail(db, req_data.email)
    IN IF user = 0 \/ db[user].password # req_data.password
       THEN create_response(400, "Invalid credentials", NoData)
       ELSE create_response(200, "Login successful",
                Dict([token |-> "mocked_jwt_token",
                      refreshToken |-> "mocked_refresh_token",
                      expirationTime |-> "24Hrs",
                      role |-> db[user].role]))

\* POST /auth/login; on success the client keeps the token and role returned
login(req_data) ==
    LET out == login_response(USERS_DB, req_data)
    IN /\ Serve([op |-> "login", body |-> req_data], USERS_DB, out)
       /\ IF out.raised = "" /\ out.body[1].statusCode = 200
          THEN session' = Some([email |-> req_data.email,
                                role |-> out.body[1].user[1].role,
                                token |-> out.body[1].token[1]])
          ELSE UNCHANGED session

\* a refresh that returns the refresh token login issues, not the one presented
refresh_FixedRefreshToken(req_data) ==
    /\ IF DictGet(req_data, "token") \in {None, Some("")}
       THEN Serve([op |-> "refresh", body |-> req_data], USERS_DB,
                  create_response(400, "No token provided", NoData))
       ELSE Serve([op |-> "refresh", body |-> req_data], USERS_DB,
                  create_response(200, "Successfully refreshed token",
                     Dict([token |-> "new_mocked_jwt_token",
                           refreshToken |-> "mocked_refresh_token",
                           expirationTime |-> "24Hrs"])))
    /\ UNCHANGED session

\* POST /auth/refresh
refresh(req_data) ==
    /\ IF DictGet(req_data, "token") \in {None, Some("")}
       THEN Serve([op |-> "refresh", body |-> req_data], USERS_DB,
                  create_response(400, "No token provided", NoData))
       ELSE Serve([op |-> "refresh", body |-> req_data], USERS_DB,
                  create_response(200, "Successfully refreshed token",
                     Dict([token |-> "new_mocked_jwt_token",
                           refreshToken |-> req_data.token,
                           expirationTime |-> "24Hrs"])))
    /\ UNCHANGED session

\* GET /admin/get-all-users
get_all_users ==
    /\ Serve([op |-> "get_all_users"], USERS_DB,
             create_response(200, "Successful", List(USERS_DB)))
    /\ UNCHANGED session

\* GET /admin/get-user/<int:userId>
get_user_by_id(userId) ==
    /\ LET user == FindById(USERS_DB, userId)
       IN IF user # 0
          THEN Serve([op |-> "get_user_by_id", userId |-> userId], USERS_DB,
                     create_response(200, "User with ID " \o ToString(userId) \o " found",
                                     Dict(USERS_DB[user])))
          ELSE Serve([op |-> "get_user_by_id", userId |-> userId], USERS_DB,
                     create_response(404, "User with ID " \o ToString(userId) \o " not found",
                                     NoData))
    /\ UNCHANGED session

\* GET /admin/get-user-by-role/<role>
get_users_by_role(role) ==
    /\ LET users == FilterByRole(USERS_DB, role)
       IN IF Len(users) > 0
          THEN Serve([op |-> "get_users_by_role", role |-> role], USERS_DB,
                     create_response(200, "Users with role " \o role \o " found",
                                     List(users)))
          ELSE Serve([op |-> "get_users_by_role", role |-> role], USERS_DB,
                     create_response(404, "No users found with role " \o role, NoData))
    /\ UNCHANGED session

\* a handler that disables instead of negating
enable_disable_user_Disable(userId) ==
    /\ LET user == FindById(USERS_DB, userId)
       IN IF user # 0
          THEN LET db == [USERS_DB EXCEPT ![user].enabled = FALSE]
               IN /\ Answer([op |-> "enable_disable_user", userId |-> userId], db,
                            create_response(200,
                                "User with ID " \o ToString(userId) \o " status changed",
                                Dict(db[user])))
                  /\ flips' = Flip(flips, user)
                  /\ UNCHANGED thread
          ELSE Serve([op |-> "enable_disable_user", userId |-> userId], USERS_DB,
                     create_response(404, "User with ID " \o ToString(userId) \o " not found",
                                     NoData))
    /\ UNCHANGED session

\* a handler that negates the flag of every record
enable_disable_user_ToggleAll(userId) ==
    /\ LET user == FindById(USERS_DB, userId)
       IN IF user # 0
          THEN LET db == [i \in 1 .. Len(USERS_DB) |->
                            [USERS_DB[i] EXCEPT !.enabled = ~ USERS_DB[i].enabled]]
               IN /\ Answer([op |-> "enable_disable_user", userId |-> userId], db,
                            create_response(200,
                                "User with ID " \o ToString(userId) \o " status changed",
                                Dict(db[user])))
                  /\ flips' = Flip(flips, user)
                  /\ UNCHANGED thread
          ELSE Serve([op |-> "enable_disable_user", userId |-> userId], USERS_DB,
                     create_response(404, "User with ID " \o ToString(userId) \o " not found",
                                     NoData))
    /\ UNCHANGED session

\* PUT /admin/enable-disable/<int:userId>
enable_disable_user(userId) ==
    /\ LET user == FindById(USERS_DB, userId)
       IN IF user # 0
          THEN LET db == [USERS_DB EXCEPT ![user].enabled = ~ USERS_DB[user].enabled]
               IN /\ Answer([op |-> "enable_disable_user", userId |-> userId], db,
                            create_response(200,
                                "User with ID " \o ToString(userId) \o " status changed",
                                Dict(db[user])))
                  /\ flips' = Flip(flips, user)
                  /\ UNCHANGED thread
          ELSE Serve([op |-> "enable_disable_user", userId |-> userId], USERS_DB,
                     create_response(404, "User with ID " \o ToString(userId) \o " not found",
                                     NoData))
    /\ UNCHANGED session

\* a handler that blanks the stored password of the record it returns
get_profile_ClearsPassword ==
    /\ LET db == [USERS_DB EXCEPT ![1].password = ""]
       IN Serve([op |-> "get_profile"], db,
                create_response(200, "Successful", Dict(db[1])))
    /\ UNCHANGED session

\* GET /alluser/get-profile
get_profile ==
    /\ LET logged_in_user == USERS_DB[1]
       IN Serve([op |-> "get_profile"], USERS_DB,
                create_response(200, "Successful", Dict(logged_in_user)))
    /\ UNCHANGED session

\* PUT /alluser/change-password
change_password(req_data) ==
    /\ Serve([op |-> "change_password", body |-> req_data],
             [USERS_DB EXCEPT ![1].password = req_data.password],
             create_response(200, "Password changed successfully", NoData))
    /\ UNCHANGED session

Next ==
    \/ \E b \in RegisterBodies \cup MalformedRegisterBodies : register(b)
    \/ \E e \in Emails, p \in LoginPasswords :
          login([email |-> e, password |-> p])
    \/ \E b \in RefreshBodies : refresh(b)
    \/ get_all_users
    \/ \E i \in UserIds : get_user_by_id(i)
    \/ \E r \in RequestRoles : get_users_by_role(r)
    \/ \E i \in UserIds : enable_disable_user(i)
    \/ get_profile
    \/ \E p \in Passwords : change_password([password |-> p])

Spec == Init /\ [][Next]_vars

\* ------------------------------------ register(), statement by statement
\* The handler runs on one of the server's threads; a thread switch can
\* fall between the lookup of line 36, the read of len(USERS_DB) at line 41
\* and the append of line 48.

\* lines 34-38: look the email up; answer 400 when it is taken
register_check(t, req_data) ==
    /\ thread[t].pc = "idle"
    /\ LET existing_user == FindByEmail(USERS_DB, req_data.email)
       IN IF existing_user # 0
          THEN /\ req' = [op |-> "register", body |-> req_data]
               /\ resp' = create_response(400, "Email already exists", NoData)
               /\ before' = USERS_DB
               /\ UNCHANGED thread
          ELSE /\ Len(USERS_DB) < MaxUsers
               /\ thread' = [thread EXCEPT ![t] = [pc |-> "build", req_data |-> req_data]]
               /\ UNCHANGED <<req, resp, before>>
    /\ UNCHANGED <<USERS_DB, session, flips>>

\* lines 40-47: build new_user from the request and the current length
register_build(t) ==
    /\ thread[t].pc = "build"
    /\ thread' = [thread EXCEPT ![t] =
                    [pc |-> "append", req_data |-> thread[t].req_data,
                     new_user |-> NewUser(USERS_DB, thread[t].req_data)]]
    /\ UNCHANGED <<USERS_DB, req, resp, before, session, flips>>

\* lines 48-49: append new_user and answer 200
register_append(t) ==
    /\ thread[t].pc = "append"
    /\ USERS_DB' = Append(USERS_DB, thread[t].new_user)
    /\ req' = [op |-> "register", body |-> thread[t].req_data]
    /\ resp' = create_response(200, "User registered successfully",
                               Dict(thread[t].new_user))
    /\ before' = USERS_DB
    /\ thread' = [thread EXCEPT ![t] = IdleThread]
    /\ UNCHANGED <<session, flips>>

NextConc ==
    \/ \E t \in Threads, b \in RegisterBodies : register_check(t, b)
    \/ \E t \in Threads : register_build(t)
    \/ \E t \in Threads : register_append(t)

SpecConc == Init /\ [][NextConc]_vars

\* ------------------------- enable_disable_user(), statement by statement
\* user['enabled'] = not user['enabled'] (line 108) loads the flag, negates
\* it and stores it; a thread switch can fall between the load and the store.

\* lines 106-108: look the user up; answer 404 when absent, else load the flag
toggle_read(t, userId) ==
    /\ thread[t].pc = "idle"
    /\ LET user == FindById(USERS_DB, userId)
       IN IF user # 0
          THEN /\ thread' = [thread EXCEPT ![t] =
                                [pc |-> "store", userId |-> userId, user |-> user,
                                 enabled |-> USERS_DB[user].enabled]]
               /\ UNCHANGED <<req, resp, before>>
          ELSE /\ req' = [op |-> "enable_disable_user", userId |-> userId]
               /\ resp' = create_response(404,
                              "User with ID " \o ToString(userId) \o " not found", NoData)
               /\ before' = USERS_DB
               /\ UNCHANGED thread
    /\ UNCHANGED <<USERS_DB, session, flips>>

\* lines 108-109: store the negation of the flag loaded and answer 200
toggle_write(t) ==
    /\ thread[t].pc = "store"
    /\ LET user == thread[t].user
           db == [USERS_DB EXCEPT ![user].enabled = ~ thread[t].enabled]
       IN /\ USERS_DB' = db
          /\ req' = [op |-> "enable_disable_user", userId |-> thread[t].userId]
          /\ resp' = create_response(200,
                         "User with ID " \o ToString(thread[t].userId) \o " status changed",
                         Dict(db[user]))
          /\ flips' = Flip(flips, user)
    /\ before' = USERS_DB
    /\ thread' = [thread EXCEPT ![t] = IdleThread]
    /\ UNCHANGED session

NextToggle ==
    \/ \E t \in Threads, i \in UserIds : toggle_read(t, i)
    \/ \E t \in Threads : toggle_write(t)

SpecToggle == Init /\ [][NextToggle]_vars

\* ------------------------------------------------------------ accessors
Ok(out) == out.raised = "" /\ out.body # None
Body(out) == out.body[1]
StatusIs(out, code) == Ok(out) /\ Body(out).statusCode = code
IndexSet(db) == 1 .. Len(db)
HasEmail(db, email) == \E i \in IndexSet(db) : db[i].email = email

\* ================================================================ claims

\* C1: a register request whose email is already in the directory answers
\* 400 "Email already exists" and leaves the directory exactly as it was.
C1_DuplicateEmailRejected ==
    ( /\ req.op = "register"
      /\ "email" \in DOMAIN req.body
      /\ HasEmail(before, req.body.email) ) =>
        /\ StatusIs(resp, 400)
        /\ Body(resp).message = "Email already exists"
        /\ USERS_DB = before

\* a second registration of an email that an earlier registration stored
C1_Witness ==
    /\ req.op = "register"
    /\ "email" \in DOMAIN req.body
    /\ req.body.email \in NewEmails
    /\ HasEmail(before, req.body.email)
    /\ StatusIs(resp, 400)

\* C2: with requests served one at a time, a successful register appends
\* exactly one record, enabled, and returns it with an id greater than every
\* id in the directory before it.
C2_RegisterAssignsFreshId ==
    (req.op = "register" /\ StatusIs(resp, 200)) =>
        /\ Len(USERS_DB) = Len(before) + 1
        /\ SubSeq(USERS_DB, 1, Len(before)) = before
        /\ Body(resp).user = Some(USERS_DB[Len(USERS_DB)])
        /\ USERS_DB[Len(USERS_DB)].enabled = TRUE
        /\ \A i \in IndexSet(before) : before[i].id < Body(resp).user[1].id

C2_Witness ==
    /\ req.op = "register"
    /\ StatusIs(resp, 200)
    /\ Len(USERS_DB) = Len(SeedUsers) + 1
    /\ Body(resp).user[1].id = 3

\* C3: login answers 200 exactly when a record has the email and the
\* password presented, and then returns that record's role; otherwise it
\* answers 400 "Invalid credentials".
C3_LoginMatchesStoredCredentials ==
    req.op = "login" =>
        LET matches == {i \in IndexSet(before) :
                            /\ before[i].email = req.body.email
                            /\ before[i].password = req.body.password}
        IN IF matches # {}
           THEN /\ StatusIs(resp, 200)
                /\ \A i \in matches : Body(resp).user[1].role = before[i].role
           ELSE /\ StatusIs(resp, 400)
                /\ Body(resp).message = "Invalid credentials"

\* a registered user logs in
C3_Witness ==
    /\ req.op = "login"
    /\ req.body.email \in NewEmails
    /\ StatusIs(resp, 200)

\* C4: getUsersByRole answers 404 when no record has the role and 200 with
\* exactly the matching records, in creation order, when some have it.
C4_UsersByRole ==
    req.op = "get_users_by_role" =>
        LET users == SelectSeq(before, LAMBDA u : u.role = req.role)
        IN IF Len(users) = 0
           THEN StatusIs(resp, 404)
           ELSE /\ StatusIs(resp, 200)
                /\ Body(resp).userList = Some(users)

\* C5: two consecutive toggles of an existing user restore enabled; the
\* first returns the record negated, the second with the original value.
C5_Step ==
    ( /\ req.op = "enable_disable_user"
      /\ req'.op = "enable_disable_user"
      /\ req'.userId = req.userId
      /\ \E i \in IndexSet(before) : before[i].id = req.userId ) =>
        \A i \in IndexSet(before) : before[i].id = req.userId =>
            /\ StatusIs(resp, 200)
            /\ Body(resp).user[1].id = req.userId
            /\ Body(resp).user[1].enabled = ~ before[i].enabled
            /\ StatusIs(resp', 200)
            /\ Body(resp').user[1].id = req.userId
            /\ Body(resp').user[1].enabled = before[i].enabled
            /\ USERS_DB'[i].enabled = before[i].enabled

C5_ToggleTwiceRestores == [][C5_Step]_vars

\* a toggle has just re-enabled a user that an earlier toggle disabled
C5_Witness ==
    /\ req.op = "enable_disable_user"
    /\ StatusIs(resp, 200)
    /\ \E i \in IndexSet(before) :
          /\ before[i].id = req.userId
          /\ ~ before[i].enabled
          /\ USERS_DB[i].enabled

\* C6: listUsers, getUsersByRole and toggleUserEnabled, asked by a caller
\* with no session or a non-ADMIN role, return no user record and change no
\* enabled flag.
AdminOps == {"get_all_users", "get_users_by_role", "enable_disable_user"}
CarriesRecords(out) ==
    Ok(out) /\ (Body(out).user # None \/ Body(out).userList # None)

C6_AdminOnly ==
    (req.op \in AdminOps /\ (session = None \/ session[1].role # "ADMIN")) =>
        /\ ~ CarriesRecords(resp)
        /\ \A i \in IndexSet(before) : USERS_DB[i].enabled = before[i].enabled

\* C7: with register requests interleaving, no two records share an id.
C7_UniqueIds ==
    \A i, j \in IndexSet(USERS_DB) :
        i # j => USERS_DB[i].id # USERS_DB[j].id

\* C8: with register requests interleaving, no two records share an email.
C8_UniqueEmails ==
    \A i, j \in IndexSet(USERS_DB) :
        i # j => USERS_DB[i].email # USERS_DB[j].email

\* C9: getProfile returns the record of the user the caller logged in as.
C9_ProfileIsCallers ==
    (req.op = "get_profile" /\ session # None) =>
        /\ StatusIs(resp, 200)
        /\ \E i \in IndexSet(before) :
              /\ before[i].email = session[1].email
              /\ Body(resp).user = Some(before[i])

\* C10: changePassword by the logged-in caller replaces that caller's
\* password only: the caller logs in with the new password, and every
\* other record keeps its password and still logs in with it.
C10_ChangesCallersPasswordOnly ==
    (req.op = "change_password" /\ session # None) =>
        \E u \in IndexSet(before) :
            /\ before[u].email = session[1].email
            /\ StatusIs(login_response(USERS_DB,
                    [email |-> before[u].email, password |-> req.body.password]), 200)
            /\ \A j \in IndexSet(before) \ {u} :
                  /\ USERS_DB[j].password = before[j].password
                  /\ StatusIs(login_response(USERS_DB,
                        [email |-> before[j].email,
                         password |-> before[j].password]), 200)

\* C11: every request ends in an envelope with status 200, 400 or 404; none
\* ends in an unhandled exception.
C11_UniformEnvelope ==
    req.op # "none" =>
        /\ Ok(resp)
        /\ Body(resp).statusCode \in {200, 400, 404}

\* C12: listUsers answers 200 carrying every record of the directory in
\* creation order.
C12_ListUsers ==
    req.op = "get_all_users" =>
        /\ StatusIs(resp, 200)
        /\ Body(resp).userList = Some(before)

\* C13: a login that fails because the email is unknown and one that fails
\* because the password is wrong get the same response, field for field, in
\* whatever directory state each was made.
LoginBodies == [email : Emails, password : LoginPasswords]
C13_InvalidCredentials ==
    [statusCode |-> 400, message |-> "Invalid credentials", user |-> None,
     userList |-> None, token |-> None, refreshToken |-> None,
     expirationTime |-> None, error |-> None]

C13_FailedLoginsIdentical ==
    /\ (req.op = "login" /\ ~ StatusIs(resp, 200)) =>
            Ok(resp) /\ Body(resp) = C13_InvalidCredentials
    /\ \A b1, b2 \in LoginBodies :
          LET o1 == login_response(USERS_DB, b1)
              o2 == login_response(USERS_DB, b2)
          IN ( /\ ~ HasEmail(USERS_DB, b1.email)
               /\ HasEmail(USERS_DB, b2.email)
               /\ ~ StatusIs(o2, 200) ) =>
                  /\ o1 = o2
                  /\ Ok(o1)
                  /\ Body(o1) = C13_InvalidCredentials

\* a wrong password was just refused for a registered user while another
\* email is still unknown
C13_Witness ==
    /\ req.op = "login"
    /\ ~ StatusIs(resp, 200)
    /\ req.body.email \in NewEmails
    /\ HasEmail(before, req.body.email)
    /\ \E e \in Emails : ~ HasEmail(USERS_DB, e)

C15_RolesEnumerated ==
    \A i \in IndexSet(USERS_DB) : USERS_DB[i].role \in Roles

\* C16: getUserById answers 200 with the record of that id when one exists
\* and 404 when none does.
C16_UserById ==
    req.op = "get_user_by_id" =>
        IF \E i \in IndexSet(before) : before[i].id = req.userId
        THEN /\ StatusIs(resp, 200)
             /\ Body(resp).user # None
             /\ Body(resp).user[1].id = req.userId
             /\ \E i \in IndexSet(before) : Body(resp).user = Some(before[i])
        ELSE StatusIs(resp, 404)

\* a registered user is fetched by id
C16_Witness ==
    /\ req.op = "get_user_by_id"
    /\ req.userId = Len(SeedUsers) + 1
    /\ StatusIs(resp, 200)

\* C17: with toggles interleaving, once no toggle is in progress every
\* record's enabled is what the answered toggles give in some serial order:
\* its original value (True) iff it was toggled an even number of times.
C17_TogglesSerializable ==
    (\A t \in Threads : thread[t].pc = "idle") =>
        \A i \in IndexSet(USERS_DB) : USERS_DB[i].enabled = (i \notin flips)

\* C18: login does not look at enabled: a disabled user with the right
\* email and password logs in and gets the stored role.
AllEnabled(db) == [i \in 1 .. Len(db) |-> [db[i] EXCEPT !.enabled = TRUE]]

C18_LoginIgnoresEnabled ==
    /\ req.op = "login" =>
          \A i \in IndexSet(before) :
              ( /\ before[i].email = req.body.email
                /\ before[i].password = req.body.password
                /\ ~ before[i].enabled ) =>
                    /\ StatusIs(resp, 200)
                    /\ Body(resp).user[1].role = before[i].role
    /\ \A b \in LoginBodies :
          login_response(USERS_DB, b) = login_response(AllEnabled(USERS_DB), b)

\* a user disabled by a toggle has just logged in
C18_Witness ==
    /\ req.op = "login"
    /\ StatusIs(resp, 200)
    /\ \E i \in IndexSet(before) :
          /\ before[i].email = req.body.email
          /\ ~ before[i].enabled
          /\ i \in flips

\* C19: toggleUserEnabled(id) negates enabled of the record with that id and
\* changes nothing else; with no such record it answers 404 and the
\* directory is unchanged.
C19_ToggleFrame ==
    req.op = "enable_disable_user" =>
        IF \E i \in IndexSet(before) : before[i].id = req.userId
        THEN /\ StatusIs(resp, 200)
             /\ \E u \in IndexSet(before) :
                   /\ before[u].id = req.userId
                   /\ USERS_DB = [before EXCEPT ![u].enabled = ~ before[u].enabled]
                   /\ Body(resp).user = Some(USERS_DB[u])
        ELSE /\ StatusIs(resp, 404)
             /\ USERS_DB = before

\* the second of three records is toggled
C19_Witness ==
    /\ req.op = "enable_disable_user"
    /\ req.userId = 2
    /\ Len(before) = 3
    /\ StatusIs(resp, 200)
    /\ USERS_DB # before

\* C20: login, refresh, listUsers, getUserById, getUsersByRole and getProfile
\* leave the directory as it was, and no request removes a record.
ReadOps ==
    {"login", "refresh", "get_all_users", "get_user_by_id",
     "get_users_by_role", "get_profile"}

C20_ReadsLeaveDirectory ==
    /\ req.op \in ReadOps => USERS_DB = before
    /\ Len(USERS_DB) >= Len(before)
    /\ \A i \in IndexSet(before) :
          /\ USERS_DB[i].id = before[i].id
          /\ USERS_DB[i].email = before[i].email

\* a read that failed on a directory holding a registered user
C20_Witness ==
    /\ req.op \in ReadOps
    /\ ~ StatusIs(resp, 200)
    /\ Len(before) = 3
    /\ USERS_DB = before
====
